---- MODULE Spec2Model ----
(***************************************************************************)
(* A model of the chess board of py-chess-ai: the grid with its piece      *)
(* back-references (chess_ai/domain/board.py), the movement rules and the  *)
(* legality filter (pieces.py), the check detector with its memo, and the  *)
(* evaluator, and the move ranking and the search memo of engine.py.  One   *)
(* action per public call; every call is modelled whole, a Python          *)
(* exception included (variable err).                                      *)
(***************************************************************************)
EXTENDS Integers, Sequences, FiniteSets, TLC

VARIABLES
    cells,        \* BoardBase.cells: the 8x8 grid, cell -> piece reference or None
    pieces,       \* the Piece objects created so far: index -> [kind, white, cell]
    check_cache,  \* BoardBase.check_cache: key -> boolean
    eval_cache,   \* engine.eval_cache: key -> the Move minMax returned
    total_hits,   \* engine.total_hits
    searched,     \* the calls of minMax_cached so far, in order: depth,
                  \* fingerprint, returned Move, runs of minMax in the call
    running,      \* run_game: the flag of the game loop
    manual,       \* run_game: its parameter manual
    nextMove,     \* run_game: the engine's last Move, None while a move is due
    whitesTurn,   \* run_game: the colour the user may drag
    uiState,      \* run_game: the UIState object
    events,       \* the event queue of pygame: posted and not yet fetched
    played,       \* the set_cell calls run_game made so far, in order
    simulated,    \* the set_cell calls by which the last call tried moves and
                  \* took them back, in order: cell and piece
    lastOp,       \* name of the last call made on the board
    lastMut,      \* name of the last call that can change the board or its memo
    lastArg,      \* arguments of the last call
    result,       \* value returned by the last call (NoResult when it raised)
    err,          \* exception raised by the last call, "none" when it returned
    pre,          \* grid, piece cells and memo as they were when the last call started
    calls         \* number of calls made so far that can change the board or its memo

vars == <<cells, pieces, check_cache, eval_cache, total_hits, searched,
          running, manual, nextMove, whitesTurn, uiState, events, played,
          simulated, lastOp, lastMut, lastArg, result, err, pre, calls>>

-----------------------------------------------------------------------------
(* Bounds of the model *)

MaxCalls == 2          \* calls that can change the board or its memo
MaxPieces == 36        \* Piece objects constructed over one run
MaxSearches == 2       \* calls of minMax_cached over one run
MaxPlacements == 3     \* moves made on the board over one game
MaxEvents == 2         \* events waiting in the queue
MaxMoves == 1          \* moves made before the movement rules are queried

-----------------------------------------------------------------------------
(* Python values *)

None == 0              \* None as a piece reference
NoCell == <<>>         \* None as a cell (Piece.cell before the first placement)
NoList == "None"       \* None where a list is expected (UIState.valid_cells)
NoResult == "NoResult"
NoError == "none"

Cell == (0..7) \X (0..7)

EmptyGrid == [c \in Cell |-> None]

Range(s) == {s[i] : i \in 1..Len(s)}

RECURSIVE Concat(_)
Concat(ss) == IF ss = <<>> THEN <<>> ELSE Head(ss) \o Concat(Tail(ss))

-----------------------------------------------------------------------------
(* A board value b is a record [cells, pieces, check_cache, err, log]: the  *)
(* object graph an operation works on, the exception it has raised and the *)
(* set_cell calls of its simulated moves so far.                           *)

Raise(b, e) == [b EXCEPT !.err = e]

\* the upper bound of the column is not tested
is_valid_cell_no_column_bound(cell) ==
    IF cell = NoCell
    THEN FALSE
    ELSE 0 <= cell[1] /\ cell[1] <= 7 /\ 0 <= cell[2]

is_valid_cell(cell) ==
    IF cell = NoCell
    THEN FALSE
    ELSE 0 <= cell[1] /\ cell[1] <= 7 /\ 0 <= cell[2] /\ cell[2] <= 7

get_cell(b, cell) ==
    IF ~is_valid_cell(cell) THEN None ELSE b.cells[cell]

\* the column is not tested
set_cell_no_column_check(b, cell, piece) ==
    IF cell[1] < 0 \/ cell[1] >= 8 THEN Raise(b, "InvalidRowException")
    ELSE IF piece # None
    THEN LET b1 == IF b.pieces[piece].cell # NoCell
                   THEN [b EXCEPT !.cells[b.pieces[piece].cell] = None]
                   ELSE b
         IN [b1 EXCEPT !.pieces[piece].cell = cell, !.cells[cell] = piece]
    ELSE [b EXCEPT !.cells[cell] = None]

\* the cell the piece comes from is not cleared
set_cell_copy(b, cell, piece) ==
    IF cell[1] < 0 \/ cell[1] >= 8 THEN Raise(b, "InvalidRowException")
    ELSE IF cell[2] < 0 \/ cell[2] >= 8 THEN Raise(b, "InvalidColumnException")
    ELSE IF piece # None
    THEN [b EXCEPT !.pieces[piece].cell = cell, !.cells[cell] = piece]
    ELSE [b EXCEPT !.cells[cell] = None]

RECURSIVE set_cell(_, _, _)
set_cell(b, cell, piece) ==
    LET row == cell[1]
        col == cell[2]
    IN IF row < 0 \/ row >= 8 THEN Raise(b, "InvalidRowException")
       ELSE IF col < 0 \/ col >= 8 THEN Raise(b, "InvalidColumnException")
       ELSE IF piece # None
            THEN LET b1 == IF b.pieces[piece].cell # NoCell
                           THEN set_cell(b, b.pieces[piece].cell, None)
                           ELSE b
                 IN IF b1.err # NoError THEN b1
                    ELSE [b1 EXCEPT !.pieces[piece].cell = cell,
                                    !.cells[cell] = piece]
            ELSE [b EXCEPT !.cells[cell] = None]

clear_board(b) == [b EXCEPT !.cells = EmptyGrid]

\* board.set_cell(cell, piece) called to try a move or to take it back: the
\* call is noted in the log
Call(b, cell, piece) ==
    [set_cell(b, cell, piece) EXCEPT !.log = Append(b.log, [cell |-> cell, piece |-> piece])]

cell_is_valid_and_empty(b, cell) ==
    IF ~is_valid_cell(cell) THEN FALSE ELSE get_cell(b, cell) = None

piece_can_enter_cell(b, piece, cell) ==
    LET target_piece == get_cell(b, cell)
    IN IF is_valid_cell(cell) = FALSE THEN FALSE
       ELSE IF target_piece = None THEN TRUE
       ELSE b.pieces[target_piece].white # b.pieces[piece].white

piece_can_hit_on_cell(b, piece, cell) ==
    LET target_piece == get_cell(b, cell)
    IN IF is_valid_cell(cell) = FALSE THEN FALSE
       ELSE IF target_piece = None THEN FALSE
       ELSE b.pieces[target_piece].white # b.pieces[piece].white

-----------------------------------------------------------------------------
(* Movement rules (pieces.py).  Rook, Bishop, Queen and Knight keep their  *)
(* directions in a Python set, whose iteration order the language leaves   *)
(* open; the model iterates them in the order they are written in.  The    *)
(* order decides the order of the returned list only.                      *)

\* the ray goes on behind an opposing piece
RECURSIVE Slide_through(_, _, _, _)
Slide_through(b, piece, current_cell, direction) ==
    IF cell_is_valid_and_empty(b, current_cell) \/ piece_can_hit_on_cell(b, piece, current_cell)
    THEN <<current_cell>> \o
         Slide_through(b, piece, <<current_cell[1] + direction[1],
                                   current_cell[2] + direction[2]>>, direction)
    ELSE <<>>

RECURSIVE Slide(_, _, _, _)
Slide(b, piece, current_cell, direction) ==
    IF cell_is_valid_and_empty(b, current_cell)
    THEN <<current_cell>> \o
         Slide(b, piece, <<current_cell[1] + direction[1],
                           current_cell[2] + direction[2]>>, direction)
    ELSE IF piece_can_hit_on_cell(b, piece, current_cell)
    THEN <<current_cell>>
    ELSE <<>>

SlideAll(b, piece, directions) ==
    LET row == b.pieces[piece].cell[1]
        col == b.pieces[piece].cell[2]
    IN Concat([i \in 1..Len(directions) |->
                Slide(b, piece, <<row + directions[i][1], col + directions[i][2]>>,
                      directions[i])])

RookDirections == << <<-1, 0>>, <<1, 0>>, <<0, -1>>, <<0, 1>> >>

BishopDirections == << <<-1, -1>>, <<1, -1>>, <<-1, 1>>, <<1, 1>> >>

QueenDirections ==
    << <<-1, 0>>, <<1, 0>>, <<0, -1>>, <<0, 1>>,
       <<-1, -1>>, <<1, -1>>, <<-1, 1>>, <<1, 1>> >>

KnightDirections ==
    << <<-2, -1>>, <<-2, 1>>, <<2, -1>>, <<2, 1>>,
       <<-1, -2>>, <<-1, 2>>, <<1, -2>>, <<1, 2>> >>

KingDirections ==
    << <<-1, -1>>, <<-1, 0>>, <<-1, 1>>, <<0, -1>>,
       <<0, 1>>, <<1, -1>>, <<1, 0>>, <<1, 1>> >>

Rook_get_reachable_cells(b, piece) == SlideAll(b, piece, RookDirections)

Bishop_get_reachable_cells(b, piece) == SlideAll(b, piece, BishopDirections)

Queen_get_reachable_cells(b, piece) == SlideAll(b, piece, QueenDirections)

Knight_get_reachable_cells(b, piece) ==
    LET row == b.pieces[piece].cell[1]
        col == b.pieces[piece].cell[2]
        target(i) == <<row + KnightDirections[i][1], col + KnightDirections[i][2]>>
    IN Concat([i \in 1..Len(KnightDirections) |->
                IF cell_is_valid_and_empty(b, target(i)) THEN <<target(i)>>
                ELSE IF piece_can_hit_on_cell(b, piece, target(i)) THEN <<target(i)>>
                ELSE <<>>])

King_get_reachable_cells(b, piece) ==
    LET row == b.pieces[piece].cell[1]
        col == b.pieces[piece].cell[2]
        target(i) == <<row + KingDirections[i][1], col + KingDirections[i][2]>>
    IN Concat([i \in 1..Len(KingDirections) |->
                IF piece_can_enter_cell(b, piece, target(i)) THEN <<target(i)>>
                ELSE <<>>])

\* the first step of the two is not looked at
Pawn_get_reachable_cells_jumps(b, piece) ==
    LET row == b.pieces[piece].cell[1]
        column == b.pieces[piece].cell[2]
        step == IF b.pieces[piece].white THEN 1 ELSE -1
        start == IF b.pieces[piece].white THEN 1 ELSE 6
        move_forward == <<row + step, column>>
        kick_start == <<row + 2 * step, column>>
        hit_right == <<row + step, column + step>>
        hit_left == <<row + step, column - step>>
    IN (IF cell_is_valid_and_empty(b, move_forward) THEN <<move_forward>> ELSE <<>>)
       \o (IF row = start /\ cell_is_valid_and_empty(b, kick_start)
           THEN <<kick_start>> ELSE <<>>)
       \o (IF piece_can_hit_on_cell(b, piece, hit_right) THEN <<hit_right>> ELSE <<>>)
       \o (IF piece_can_hit_on_cell(b, piece, hit_left) THEN <<hit_left>> ELSE <<>>)

Pawn_get_reachable_cells(b, piece) ==
    LET row == b.pieces[piece].cell[1]
        column == b.pieces[piece].cell[2]
        step == IF b.pieces[piece].white THEN 1 ELSE -1
        start == IF b.pieces[piece].white THEN 1 ELSE 6
        move_forward == <<row + step, column>>
        kick_start == <<row + 2 * step, column>>
        hit_right == <<row + step, column + step>>
        hit_left == <<row + step, column - step>>
    IN (IF cell_is_valid_and_empty(b, move_forward) THEN <<move_forward>> ELSE <<>>)
       \o (IF row = start /\ cell_is_valid_and_empty(b, kick_start)
              /\ cell_is_valid_and_empty(b, move_forward)
           THEN <<kick_start>> ELSE <<>>)
       \o (IF piece_can_hit_on_cell(b, piece, hit_right) THEN <<hit_right>> ELSE <<>>)
       \o (IF piece_can_hit_on_cell(b, piece, hit_left) THEN <<hit_left>> ELSE <<>>)

get_reachable_cells(b, piece) ==
    CASE b.pieces[piece].kind = "Pawn" -> Pawn_get_reachable_cells(b, piece)
      [] b.pieces[piece].kind = "Rook" -> Rook_get_reachable_cells(b, piece)
      [] b.pieces[piece].kind = "Knight" -> Knight_get_reachable_cells(b, piece)
      [] b.pieces[piece].kind = "Bishop" -> Bishop_get_reachable_cells(b, piece)
      [] b.pieces[piece].kind = "Queen" -> Queen_get_reachable_cells(b, piece)
      [] b.pieces[piece].kind = "King" -> King_get_reachable_cells(b, piece)

-----------------------------------------------------------------------------
(* Scans of the grid (Board) *)

\* the cells in the order of "for row in self.cells: for cell in row"
ScanOrder == [i \in 1..64 |-> <<(i - 1) \div 8, (i - 1) % 8>>]

iterate_cells_with_pieces(b, white) ==
    LET IsOurs(c) == b.cells[c] # None /\ b.pieces[b.cells[c]].white = white
        occupied == SelectSeq(ScanOrder, IsOurs)
    IN [i \in 1..Len(occupied) |-> b.cells[occupied[i]]]

RECURSIVE FirstKing(_, _, _)
FirstKing(b, ps, i) ==
    IF i > Len(ps) THEN None
    ELSE IF b.pieces[ps[i]].kind = "King" THEN ps[i]
    ELSE FirstKing(b, ps, i + 1)

find_king(b, white) == FirstKing(b, iterate_cells_with_pieces(b, white), 1)

\* the inner loop of is_king_check: np.array_equal against each reachable cell
RECURSIVE CellInList(_, _, _)
CellInList(reachable_cells, i, king_cell) ==
    IF i > Len(reachable_cells) THEN FALSE
    ELSE IF reachable_cells[i] = king_cell THEN TRUE
    ELSE CellInList(reachable_cells, i + 1, king_cell)

RECURSIVE CheckScan(_, _, _, _)
CheckScan(b, opposing, i, king_cell) ==
    IF i > Len(opposing) THEN FALSE
    ELSE IF CellInList(get_reachable_cells(b, opposing[i]), 1, king_cell) THEN TRUE
    ELSE CheckScan(b, opposing, i + 1, king_cell)

\* the pieces of the king's own colour are scanned
is_king_check_own_colour(b, white) ==
    LET king == find_king(b, white)
    IN IF king = None
       THEN [value |-> NoResult, err |-> "AttributeError"]
       ELSE [value |-> CheckScan(b, iterate_cells_with_pieces(b, white), 1,
                                 b.pieces[king].cell),
             err |-> NoError]

\* a colour without king is not in check
is_king_check_none_is_false(b, white) ==
    LET king == find_king(b, white)
    IN IF king = None
       THEN [value |-> FALSE, err |-> NoError]
       ELSE [value |-> CheckScan(b, iterate_cells_with_pieces(b, ~white), 1,
                                 b.pieces[king].cell),
             err |-> NoError]

\* returns [value, err]: the king of a colour without king is None, and
\* king.cell raises AttributeError
is_king_check(b, white) ==
    LET king == find_king(b, white)
    IN IF king = None
       THEN [value |-> NoResult, err |-> "AttributeError"]
       ELSE [value |-> CheckScan(b, iterate_cells_with_pieces(b, ~white), 1,
                                 b.pieces[king].cell),
             err |-> NoError]

-----------------------------------------------------------------------------
(* Fingerprint (BoardBase.hash, util.map_piece_to_character) *)

lower(c) ==
    CASE c = "P" -> "p" [] c = "R" -> "r" [] c = "N" -> "n"
      [] c = "B" -> "b" [] c = "Q" -> "q" [] c = "K" -> "k"
      [] OTHER -> c

\* the colour is not written
map_piece_to_character_no_colour(b, piece) ==
    IF piece = None THEN "."
    ELSE LET k == b.pieces[piece].kind
         IN CASE k = "Pawn" -> "P" [] k = "Rook" -> "R" [] k = "Knight" -> "N"
              [] k = "Bishop" -> "B" [] k = "Queen" -> "Q" [] k = "King" -> "K"

map_piece_to_character(b, piece) ==
    IF piece = None THEN "."
    ELSE LET k == b.pieces[piece].kind
             c == CASE k = "Pawn" -> "P" [] k = "Rook" -> "R" [] k = "Knight" -> "N"
                    [] k = "Bishop" -> "B" [] k = "Queen" -> "Q" [] k = "King" -> "K"
         IN IF b.pieces[piece].white THEN c ELSE lower(c)

\* rows are joined from row 7 down to row 0, each row from column 0 to 7
hash(b) ==
    [i \in 1..64 |-> map_piece_to_character(b, b.cells[<<7 - ((i - 1) \div 8), (i - 1) % 8>>])]

\* str(board): the rows are written from row 0 up to row 7
Board_str_rows_not_reversed(b) ==
    LET line(r) == Concat([i \in 1..8 |->
                       IF i = 1 THEN <<map_piece_to_character(b, b.cells[<<r, 0>>])>>
                       ELSE <<" ", map_piece_to_character(b, b.cells[<<r, i - 1>>])>>])
    IN Concat([j \in 1..8 |-> IF j = 1 THEN line(0) ELSE <<"\n">> \o line(j - 1)])

\* str(board): the rows from row 7 down to row 0 joined by "\n", the cells of
\* a row joined by " "
Board_str(b) ==
    LET line(r) == Concat([i \in 1..8 |->
                       IF i = 1 THEN <<map_piece_to_character(b, b.cells[<<r, 0>>])>>
                       ELSE <<" ", map_piece_to_character(b, b.cells[<<r, i - 1>>])>>])
    IN Concat([j \in 1..8 |-> IF j = 1 THEN line(7) ELSE <<"\n">> \o line(8 - j)])

\* hash = self.hash() + "-w" if white else "-b": the conditional expression
\* binds weaker than +, so the black key is the constant "-b"
check_cache_key(b, white) ==
    IF white THEN hash(b) \o <<"-", "w">> ELSE <<"-", "b">>

\* returns [b, value]: b carries the memo and the exception
is_king_check_cached(b, white) ==
    LET key == check_cache_key(b, white)
    IN IF key \in DOMAIN b.check_cache
       THEN [b |-> b, value |-> b.check_cache[key]]
       ELSE LET r == is_king_check(b, white)
            IN IF r.err # NoError
               THEN [b |-> Raise(b, r.err), value |-> NoResult]
               ELSE [b |-> [b EXCEPT !.check_cache = (key :> r.value) @@ b.check_cache],
                     value |-> r.value]

-----------------------------------------------------------------------------
(* Legality filter (Piece.get_valid_cells) *)

\* the piece on the target cell is put back before the moved piece is
RECURSIVE ValidLoop_target_restored_first(_, _, _, _, _, _)
ValidLoop_target_restored_first(b, piece, old_cell, reachable_cells, i, valid_cells) ==
    IF i > Len(reachable_cells) THEN [b |-> b, value |-> valid_cells]
    ELSE LET target_cell == reachable_cells[i]
             captured_piece == get_cell(b, target_cell)
             b1 == Call(b, target_cell, piece)
             q == is_king_check_cached(b1, b.pieces[piece].white)
         IN IF q.b.err # NoError
            THEN [b |-> q.b, value |-> NoResult]
            ELSE LET b2 == Call(q.b, target_cell, captured_piece)
                     b3 == Call(b2, old_cell, piece)
                 IN ValidLoop_target_restored_first(
                        b3, piece, old_cell, reachable_cells, i + 1,
                        IF ~q.value THEN Append(valid_cells, target_cell) ELSE valid_cells)

RECURSIVE ValidLoop(_, _, _, _, _, _)
ValidLoop(b, piece, old_cell, reachable_cells, i, valid_cells) ==
    IF i > Len(reachable_cells) THEN [b |-> b, value |-> valid_cells]
    ELSE LET target_cell == reachable_cells[i]
             captured_piece == get_cell(b, target_cell)
             b1 == Call(b, target_cell, piece)
             q == is_king_check_cached(b1, b.pieces[piece].white)
         IN IF q.b.err # NoError
            THEN [b |-> q.b, value |-> NoResult]
            ELSE LET b2 == Call(q.b, old_cell, piece)
                     b3 == Call(b2, target_cell, captured_piece)
                 IN ValidLoop(b3, piece, old_cell, reachable_cells, i + 1,
                              IF ~q.value THEN Append(valid_cells, target_cell)
                              ELSE valid_cells)

\* returns [b, value]; a piece never placed has cell None, and unpacking it
\* in get_reachable_cells raises TypeError
get_valid_cells(b, piece) ==
    IF b.pieces[piece].cell = NoCell
    THEN [b |-> Raise(b, "TypeError"), value |-> NoResult]
    ELSE ValidLoop(b, piece, b.pieces[piece].cell, get_reachable_cells(b, piece), 1, <<>>)

-----------------------------------------------------------------------------
(* Evaluator *)

\* Piece.evaluate with use_heuristics=False: the material value
Piece_evaluate(b, piece) ==
    CASE b.pieces[piece].kind = "Pawn" -> 1
      [] b.pieces[piece].kind = "Knight" -> 3
      [] b.pieces[piece].kind = "Bishop" -> 3
      [] b.pieces[piece].kind = "Rook" -> 5
      [] b.pieces[piece].kind = "Queen" -> 9
      [] b.pieces[piece].kind = "King" -> 1000
      [] OTHER -> 0

\* the white pieces are counted and the black ones are not subtracted
evaluate_white_only(b) ==
    LET ps == iterate_cells_with_pieces(b, TRUE)
        Value(i) == Piece_evaluate(b, ps[i])
        sum[i \in 0..Len(ps)] == IF i = 0 THEN 0 ELSE sum[i - 1] + Value(i)
    IN sum[Len(ps)]

\* the material of White minus the material of Black
material(b) ==
    LET Total(ps) ==
            LET sum[i \in 0..Len(ps)] ==
                    IF i = 0 THEN 0 ELSE sum[i - 1] + Piece_evaluate(b, ps[i])
            IN sum[Len(ps)]
    IN Total(iterate_cells_with_pieces(b, TRUE)) - Total(iterate_cells_with_pieces(b, FALSE))

\* Board.evaluate: score = 0.0; return score
evaluate(b) == 0

-----------------------------------------------------------------------------
(* Construction and loading (BoardBase.reset, BoardBase.load_from_memory). *)
(* Text is a sequence of one-character strings.                            *)

\* Kind(self, white): a new Piece object, cell None; its reference is its index
NewPiece(b, kind, white) ==
    [b EXCEPT !.pieces = Append(b.pieces, [kind |-> kind, white |-> white, cell |-> NoCell])]

UpperChars == {"P", "R", "N", "B", "Q", "K"}

LowerChars == {"p", "r", "n", "b", "q", "k"}

Whitespace == {" ", "\n"}

\* str.split(sep) with a separator of one character: the pieces between
\* consecutive occurrences of sep, empty pieces included
split(s, sep) ==
    LET seps == {i \in 1..Len(s) : s[i] = sep}
        n == Cardinality(seps) + 1
        pos(k) == CHOOSE i \in seps : Cardinality({j \in seps : j < i}) = k - 1
    IN [k \in 1..n |-> SubSeq(s, IF k = 1 THEN 1 ELSE pos(k - 1) + 1,
                                 IF k = n THEN Len(s) ELSE pos(k) - 1)]

RECURSIVE lstrip(_)
lstrip(s) == IF s # <<>> /\ Head(s) \in Whitespace THEN lstrip(Tail(s)) ELSE s

RECURSIVE rstrip(_)
rstrip(s) ==
    IF s # <<>> /\ s[Len(s)] \in Whitespace THEN rstrip(SubSeq(s, 1, Len(s) - 1)) ELSE s

strip(s) == rstrip(lstrip(s))

\* str.isupper: at least one cased character and no lowercase one
isupper(s) ==
    /\ \E i \in 1..Len(s) : s[i] \in UpperChars
    /\ \A i \in 1..Len(s) : s[i] \notin LowerChars

upperChar(c) ==
    CASE c = "p" -> "P" [] c = "r" -> "R" [] c = "n" -> "N"
      [] c = "b" -> "B" [] c = "q" -> "Q" [] c = "k" -> "K"
      [] OTHER -> c

upper(s) == [i \in 1..Len(s) |-> upperChar(s[i])]

\* the chain of "if pieceCode == ..." of load_from_memory: the last match wins
KindOfCode(pieceCode) ==
    CASE pieceCode = <<"P">> -> "Pawn"
      [] pieceCode = <<"K">> -> "King"
      [] pieceCode = <<"Q">> -> "Queen"
      [] pieceCode = <<"N">> -> "Knight"
      [] pieceCode = <<"B">> -> "Bishop"
      [] pieceCode = <<"R">> -> "Rook"
      [] OTHER -> "unchanged"

\* the inner loop over the tokens of one line; piece is the local variable,
\* None while it is still unbound.  Returns [b, piece].
RECURSIVE LoadLine(_, _, _, _, _)
LoadLine(b, row, codes, col, piece) ==
    IF b.err # NoError \/ col >= Len(codes) THEN [b |-> b, piece |-> piece]
    ELSE IF codes[col + 1] = <<".">> THEN LoadLine(b, row, codes, col + 1, piece)
    ELSE LET white == isupper(codes[col + 1])
             kind == KindOfCode(upper(codes[col + 1]))
             b1 == IF kind # "unchanged" THEN NewPiece(b, kind, white) ELSE b
             piece1 == IF kind # "unchanged" THEN Len(b1.pieces) ELSE piece
         IN IF piece1 = None
            THEN [b |-> Raise(b, "UnboundLocalError"), piece |-> piece]
            ELSE LoadLine(set_cell(b1, <<7 - row, col>>, piece1), row, codes, col + 1, piece1)

RECURSIVE LoadLines(_, _, _, _)
LoadLines(b, lines, row, piece) ==
    IF b.err # NoError \/ row >= Len(lines) THEN b
    ELSE LET r == LoadLine(b, row, split(strip(lines[row + 1]), " "), 0, piece)
         IN LoadLines(r.b, lines, row + 1, r.piece)

load_from_memory(b, configString) ==
    LoadLines([b EXCEPT !.cells = EmptyGrid], split(configString, "\n"), 0, None)

\* the placements of reset, in the order of the source
ResetPlacements ==
    Concat([i \in 1..8 |-> << [cell |-> <<1, i - 1>>, kind |-> "Pawn", white |-> TRUE],
                              [cell |-> <<6, i - 1>>, kind |-> "Pawn", white |-> FALSE] >>])
    \o << [cell |-> <<0, 0>>, kind |-> "Rook", white |-> TRUE],
          [cell |-> <<0, 7>>, kind |-> "Rook", white |-> TRUE],
          [cell |-> <<7, 0>>, kind |-> "Rook", white |-> FALSE],
          [cell |-> <<7, 7>>, kind |-> "Rook", white |-> FALSE],
          [cell |-> <<0, 1>>, kind |-> "Knight", white |-> TRUE],
          [cell |-> <<0, 6>>, kind |-> "Knight", white |-> TRUE],
          [cell |-> <<7, 1>>, kind |-> "Knight", white |-> FALSE],
          [cell |-> <<7, 6>>, kind |-> "Knight", white |-> FALSE],
          [cell |-> <<0, 2>>, kind |-> "Bishop", white |-> TRUE],
          [cell |-> <<0, 5>>, kind |-> "Bishop", white |-> TRUE],
          [cell |-> <<7, 2>>, kind |-> "Bishop", white |-> FALSE],
          [cell |-> <<7, 5>>, kind |-> "Bishop", white |-> FALSE],
          [cell |-> <<0, 3>>, kind |-> "Queen", white |-> TRUE],
          [cell |-> <<7, 3>>, kind |-> "Queen", white |-> FALSE],
          [cell |-> <<0, 4>>, kind |-> "King", white |-> TRUE],
          [cell |-> <<7, 4>>, kind |-> "King", white |-> FALSE] >>

RECURSIVE PlaceAll(_, _, _)
PlaceAll(b, placements, i) ==
    IF b.err # NoError \/ i > Len(placements) THEN b
    ELSE LET b1 == NewPiece(b, placements[i].kind, placements[i].white)
         IN PlaceAll(set_cell(b1, placements[i].cell, Len(b1.pieces)), placements, i + 1)

\* the grid is not emptied first
reset_without_clear(b) == PlaceAll(b, ResetPlacements, 1)

reset(b) == PlaceAll([b EXCEPT !.cells = EmptyGrid], ResetPlacements, 1)

-----------------------------------------------------------------------------
(* Move ranking and search (engine.py) *)

DEPTH == 3

MinMaxArg(depth, playAsWhite) == [depth |-> depth, playAsWhite |-> playAsWhite]

MinMaxArg_next(minMaxArg) == MinMaxArg(minMaxArg.depth - 1, ~minMaxArg.playAsWhite)

Move(piece, cell, score) == [piece |-> piece, cell |-> cell, score |-> score]

\* None where a Move is expected: a record, so that it compares with a Move
NoMove == [piece |-> None, cell |-> NoCell, score |-> 0]

\* moves.sort(key=lambda m: m.score, reverse=...): the sort is stable, and
\* with reverse=True moves of equal score keep their order too
sort(moves, reverse) ==
    LET n == Len(moves)
        Before(i, j) ==
            IF moves[i].score = moves[j].score THEN i < j
            ELSE IF reverse THEN moves[i].score > moves[j].score
            ELSE moves[i].score < moves[j].score
        rank == SubSeq([i \in 1..n |-> Cardinality({j \in 1..n : Before(j, i)}) + 1], 1, n)
    IN SubSeq([k \in 1..n |-> moves[CHOOSE i \in 1..n : rank[i] = k]], 1, n)

\* moves[:n]
slice(moves, n) ==
    LET len == Len(moves)
        stop == IF n >= 0 THEN (IF n < len THEN n ELSE len)
                ELSE (IF len + n > 0 THEN len + n ELSE 0)
    IN SubSeq(moves, 1, stop)

\* the piece on the target cell is put back before the moved piece is
Simulate_target_restored_first(b, piece, original_cell, target_cell) ==
    LET captured_piece == get_cell(b, target_cell)
        b1 == Call(b, target_cell, piece)
        score == evaluate(b1)
        b2 == Call(b1, target_cell, captured_piece)
        b3 == Call(b2, original_cell, piece)
    IN [b |-> b3, score |-> score]

\* one candidate of evaluate_all_possible_moves: returns [b, score]
Simulate(b, piece, original_cell, target_cell) ==
    LET captured_piece == get_cell(b, target_cell)
        b1 == Call(b, target_cell, piece)
        score == evaluate(b1)
        b2 == Call(b1, original_cell, piece)
        b3 == Call(b2, target_cell, captured_piece)
    IN [b |-> b3, score |-> score]

RECURSIVE MoveLoop(_, _, _, _, _, _)
MoveLoop(b, piece, original_cell, valid_cells, i, moves) ==
    IF i > Len(valid_cells) THEN [b |-> b, moves |-> moves]
    ELSE LET r == Simulate(b, piece, original_cell, valid_cells[i])
         IN IF r.b.err # NoError THEN [b |-> r.b, moves |-> moves]
            ELSE MoveLoop(r.b, piece, original_cell, valid_cells, i + 1,
                          Append(moves, Move(piece, valid_cells[i], r.score)))

\* iterate_cells_with_pieces is a generator: it reads the grid as it is when
\* it is resumed.  The index in ScanOrder of the next piece of the colour
\* from index i on, 0 when the scan is over.
NextPiece(b, white, i) ==
    LET S == {j \in i..64 : /\ b.cells[ScanOrder[j]] # None
                            /\ b.pieces[b.cells[ScanOrder[j]]].white = white}
    IN IF S = {} THEN 0 ELSE CHOOSE j \in S : \A k \in S : j <= k

RECURSIVE PieceLoop(_, _, _, _)

\* the generator resumes one cell too far: the piece on the next cell is
\* passed over
SortMoves_skips_next_cell(r, is_white, j) ==
    PieceLoop(r.b, is_white, j + 2, sort(r.moves, is_white))

\* moves.sort(...) after the moves of a piece, r being what MoveLoop has left,
\* and on to the next piece
SortMoves(r, is_white, j) == PieceLoop(r.b, is_white, j + 1, sort(r.moves, is_white))

\* the body of the loop for the piece on ScanOrder[j], v being what its
\* get_valid_cells returned; original_cell is read after get_valid_cells
PieceStep(v, piece, is_white, j, moves) ==
    IF v.b.err # NoError THEN [b |-> v.b, moves |-> moves]
    ELSE SortMoves(MoveLoop(v.b, piece, v.b.pieces[piece].cell, v.value, 1, moves),
                   is_white, j)

\* the candidates are scored by the material on the board and the list is
\* never sorted
RECURSIVE PieceLoop_material_unsorted(_, _, _, _)
PieceLoop_material_unsorted(b, is_white, i, moves) ==
    LET j == NextPiece(b, is_white, i)
    IN IF j = 0 THEN [b |-> b, moves |-> moves]
       ELSE LET piece == b.cells[ScanOrder[j]]
                v == get_valid_cells(b, piece)
                scored == [k \in 1..Len(v.value) |->
                              Move(piece, v.value[k],
                                   material(set_cell(v.b, v.value[k], piece)))]
            IN IF v.b.err # NoError THEN [b |-> v.b, moves |-> moves]
               ELSE PieceLoop_material_unsorted(v.b, is_white, j + 1,
                                                moves \o SubSeq(scored, 1, Len(scored)))

\* the loop over the pieces; the list is sorted after every piece.
\* Returns [b, moves].
PieceLoop(b, is_white, i, moves) ==
    LET j == NextPiece(b, is_white, i)
    IN IF j = 0 THEN [b |-> b, moves |-> moves]
       ELSE PieceStep(get_valid_cells(b, b.cells[ScanOrder[j]]), b.cells[ScanOrder[j]],
                      is_white, j, moves)

\* return moves[:maximumNumberOfMoves], r being what the loop has left
Return(r, maximumNumberOfMoves) ==
    IF r.b.err # NoError THEN [b |-> r.b, value |-> NoResult]
    ELSE [b |-> r.b, value |-> slice(r.moves, maximumNumberOfMoves)]

\* returns [b, value]
evaluate_all_possible_moves(b, minMaxArg, maximumNumberOfMoves) ==
    Return(PieceLoop(b, minMaxArg.playAsWhite, 1, <<>>), maximumNumberOfMoves)

\* the body of minMax is its docstring and a TODO comment: it returns None
minMax(b, minMaxArg) == None

RECURSIVE SuggestLoop(_, _, _, _)

\* the body of the loop for white_pieces[i], v being what its get_valid_cells
\* returned: one Move of score 0.0 for every valid cell
SuggestStep(v, white_pieces, i, all_possible_moves) ==
    IF v.b.err # NoError THEN [b |-> v.b, moves |-> all_possible_moves]
    ELSE SuggestLoop(v.b, white_pieces, i + 1,
                     all_possible_moves
                     \o SubSeq([k \in 1..Len(v.value) |-> Move(white_pieces[i], v.value[k], 0)],
                               1, Len(v.value)))

\* every reachable cell is taken for a valid one
SuggestLoop_reachable(b, white_pieces, i, all_possible_moves) ==
    LET reachable == Concat([k \in 1..Len(white_pieces) |->
                        LET cs == get_reachable_cells(b, white_pieces[k])
                        IN [n \in 1..Len(cs) |-> Move(white_pieces[k], cs[n], 0)]])
    IN [b |-> b, moves |-> SubSeq(reachable, 1, Len(reachable))]

\* the loop over white_pieces.  Returns [b, moves].
SuggestLoop(b, white_pieces, i, all_possible_moves) ==
    IF i > Len(white_pieces) THEN [b |-> b, moves |-> all_possible_moves]
    ELSE SuggestStep(get_valid_cells(b, white_pieces[i]), white_pieces, i, all_possible_moves)

\* white_pieces is a list: the grid is scanned once, before the first
\* get_valid_cells.  Returns [b, moves]: the caller gets None when moves is
\* empty and random.choice(moves) otherwise.
suggest_random_move(b) == SuggestLoop(b, iterate_cells_with_pieces(b, TRUE), 1, <<>>)

Digits == <<"0", "1", "2", "3", "4", "5", "6", "7", "8", "9">>

RECURSIVE str_digits(_)
str_digits(n) ==
    IF n < 10 THEN <<Digits[n + 1]>> ELSE str_digits(n \div 10) \o <<Digits[(n % 10) + 1]>>

\* str(n) of an integer
str(n) == IF n < 0 THEN <<"-">> \o str_digits(-n) ELSE str_digits(n)

\* the key is the fingerprint alone
eval_cache_key_without_depth(b, minMaxArg) == hash(b)

\* hash = str(minMaxArg.depth) + board.hash()
eval_cache_key(b, minMaxArg) == str(minMaxArg.depth) \o hash(b)

\* the side to move is part of the key
minMax_cached_per_side(b, cache, hits, minMaxArg) ==
    LET key == eval_cache_key(b, minMaxArg) \o (IF minMaxArg.playAsWhite THEN <<"w">> ELSE <<"b">>)
    IN IF key \in DOMAIN cache
       THEN [eval_cache |-> cache, total_hits |-> hits + 1, value |-> cache[key], runs |-> 0]
       ELSE LET bestMove == minMax(b, minMaxArg)
            IN [eval_cache |-> (key :> bestMove) @@ cache, total_hits |-> hits,
                value |-> bestMove, runs |-> 1]

\* returns [eval_cache, total_hits, value, runs]: runs counts the calls of
\* minMax made
minMax_cached(b, cache, hits, minMaxArg) ==
    LET key == eval_cache_key(b, minMaxArg)
    IN IF key \in DOMAIN cache
       THEN [eval_cache |-> cache, total_hits |-> hits + 1, value |-> cache[key], runs |-> 0]
       ELSE LET bestMove == minMax(b, minMaxArg)
            IN [eval_cache |-> (key :> bestMove) @@ cache, total_hits |-> hits,
                value |-> bestMove, runs |-> 1]

-----------------------------------------------------------------------------
(* Inputs of the calls *)

\* a position as text: 8 lines from row 7 down to row 0, tokens separated by
\* one space, lines after the first indented as in the fixtures of the tests
ConfigText(at) ==
    LET line(r) == Concat([i \in 1..8 |->
                       IF i = 1 THEN <<at[<<r, 0>>]>> ELSE <<" ", at[<<r, i - 1>>]>>])
    IN Concat([j \in 1..8 |-> IF j = 1 THEN line(7) ELSE <<"\n", " ">> \o line(8 - j)])

Placed(ps) == [c \in Cell |-> IF c \in DOMAIN ps THEN ps[c] ELSE "."]

\* black king in check on row 3; the black rook can block on <<3, 3>>
CfgBlocked ==
    ConfigText(Placed(<<0, 0>> :> "K" @@ <<3, 0>> :> "R" @@ <<3, 7>> :> "k" @@ <<4, 3>> :> "r"))

\* white king attacked by a knight
CfgKnight ==
    ConfigText(Placed(<<6, 5>> :> "K" @@ <<4, 4>> :> "n" @@ <<2, 5>> :> "k"))

\* both kings attacked by a pawn
CfgPawns ==
    ConfigText(Placed(<<5, 2>> :> "k" @@ <<4, 1>> :> "P" @@ <<4, 6>> :> "p" @@ <<3, 5>> :> "K"))

Configs == <<CfgBlocked, CfgKnight, CfgPawns>>

\* a white rook that can take the black king, queen, bishop or pawn
CfgRanking ==
    ConfigText(Placed(<<7, 7>> :> "K" @@ <<5, 3>> :> "p" @@ <<3, 1>> :> "b"
                      @@ <<3, 3>> :> "R" @@ <<3, 5>> :> "q" @@ <<1, 3>> :> "k"))

CfgEmpty == ConfigText(Placed(<<>>))

\* one piece of every kind in either colour, on the cells of the initial setup
CfgAllKinds ==
    ConfigText(Placed(<<0, 0>> :> "R" @@ <<0, 1>> :> "N" @@ <<0, 2>> :> "B"
                      @@ <<0, 3>> :> "Q" @@ <<0, 4>> :> "K" @@ <<1, 0>> :> "P"
                      @@ <<7, 0>> :> "r" @@ <<7, 1>> :> "n" @@ <<7, 2>> :> "b"
                      @@ <<7, 3>> :> "q" @@ <<7, 4>> :> "k" @@ <<6, 0>> :> "p"))

\* White is mated: the queen is covered by the black king
CfgMate ==
    ConfigText(Placed(<<0, 0>> :> "K" @@ <<1, 1>> :> "q" @@ <<2, 2>> :> "k"))

\* the positions the engine is run on
EngineConfigs == <<CfgRanking, CfgPawns, CfgBlocked, CfgEmpty, CfgAllKinds, CfgMate>>

\* playAsWhite and maximumNumberOfMoves of evaluate_all_possible_moves; 10 is
\* the default of maximumNumberOfMoves, and no list is as long as 64
MoveArgs ==
    {[depth |-> DEPTH, playAsWhite |-> w, maximumNumberOfMoves |-> n] :
        w \in BOOLEAN, n \in {2, 10, 64}}

MinMaxArgs == {MinMaxArg(1, TRUE), MinMaxArg(1, FALSE), MinMaxArg(DEPTH, TRUE)}

\* suggest_move searches with MinMaxArg(), and minMax is meant to search on
\* with its next(); either side may be the one to search for
SearchArgs ==
    {MinMaxArg(DEPTH, TRUE), MinMaxArg(DEPTH, FALSE), MinMaxArg_next(MinMaxArg(DEPTH, TRUE))}

PiecesOf(configString) ==
    Cardinality({i \in 1..Len(configString) : configString[i] \in UpperChars \cup LowerChars})

\* cells the caller places on
InCells == {<<3, 0>>, <<3, 3>>}

\* cells the caller has taken a piece from, with get_cell, and still refers to
HeldCells == {<<3, 0>>, <<4, 3>>}

\* cells off the board
BadCells == {<<-1, 0>>, <<8, 8>>, <<0, -1>>, <<3, 8>>}

QueryCells == {<<3, 0>>, <<-1, 0>>, <<3, 8>>, NoCell}

NewKinds == {"Rook"}

-----------------------------------------------------------------------------
(* State machine *)

Board ==
    [cells |-> cells, pieces |-> pieces, check_cache |-> check_cache, err |-> NoError,
     log |-> <<>>]

Snapshot == [cells |-> cells, pieces |-> pieces, check_cache |-> check_cache]

Arg(cell, piece, white, config) ==
    [cell |-> cell, piece |-> piece, white |-> white, config |-> config]

NoArg == Arg(NoCell, None, FALSE, 0)

OnGrid(b, piece) == \E c \in Cell : b.cells[c] = piece

\* the pieces the caller has a reference to
PieceArgs == {p \in 1..Len(pieces) : pieces[p].cell \in HeldCells \cup {NoCell}}

\* the state of run_game
loop == <<running, manual, nextMove, whitesTurn, uiState, events, played>>

\* UIState.__init__
UIState ==
    [mouse_over_cell |-> NoCell, dragging |-> FALSE, selected_cell |-> NoCell,
     valid_cells |-> NoList, score |-> 0]

\* no game is running
NoGame ==
    /\ running = FALSE
    /\ manual = FALSE
    /\ nextMove = NoMove
    /\ whitesTurn = TRUE
    /\ uiState = UIState
    /\ events = <<>>
    /\ played = <<>>

\* a call that can change the board or its memo
Changed(before, b, op, arg, res) ==
    /\ calls < MaxCalls
    /\ calls' = calls + 1
    /\ cells' = b.cells
    /\ pieces' = b.pieces
    /\ check_cache' = b.check_cache
    /\ err' = b.err
    /\ result' = IF b.err = NoError THEN res ELSE NoResult
    /\ lastOp' = op
    /\ lastMut' = op
    /\ lastArg' = arg
    /\ pre' = before
    /\ simulated' = b.log
    /\ UNCHANGED <<eval_cache, total_hits, searched>>
    /\ UNCHANGED loop

\* a call that only reads
Queried(op, arg, res, e) ==
    /\ lastOp' = op
    /\ lastArg' = arg
    /\ result' = res
    /\ err' = e
    /\ pre' = Snapshot
    /\ simulated' = <<>>
    /\ UNCHANGED <<cells, pieces, check_cache, lastMut, calls>>
    /\ UNCHANGED <<eval_cache, total_hits, searched>>
    /\ UNCHANGED loop

Init ==
    /\ cells = EmptyGrid
    /\ pieces = <<>>
    /\ check_cache = <<>>
    /\ eval_cache = <<>>
    /\ total_hits = 0
    /\ searched = <<>>
    /\ NoGame
    /\ simulated = <<>>
    /\ lastOp = "init"
    /\ lastMut = "init"
    /\ lastArg = NoArg
    /\ result = NoResult
    /\ err = NoError
    /\ pre = [cells |-> EmptyGrid, pieces |-> <<>>, check_cache |-> <<>>]
    /\ calls = 0

SetCell ==
    \E cell \in InCells \cup BadCells, piece \in PieceArgs \cup {None} :
        Changed(Snapshot, set_cell(Board, cell, piece), "set_cell", Arg(cell, piece, FALSE, 0), None)

\* piece = Kind(board, white); board.set_cell(cell, piece)
PlaceNew ==
    \E kind \in NewKinds, white \in BOOLEAN, cell \in {<<3, 3>>, <<8, 8>>} :
        /\ Len(pieces) + 1 <= MaxPieces
        /\ LET b1 == NewPiece(Board, kind, white)
           IN Changed([cells |-> b1.cells, pieces |-> b1.pieces, check_cache |-> check_cache],
                      set_cell(b1, cell, Len(b1.pieces)), "set_cell",
                      Arg(cell, Len(b1.pieces), FALSE, 0), None)

ClearBoard == Changed(Snapshot, clear_board(Board), "clear_board", NoArg, None)

Reset ==
    /\ Len(pieces) + Len(ResetPlacements) <= MaxPieces
    /\ Changed(Snapshot, reset(Board), "reset", NoArg, None)

LoadFromMemory ==
    \E i \in 1..Len(Configs) :
        /\ Len(pieces) + PiecesOf(Configs[i]) <= MaxPieces
        /\ Changed(Snapshot, load_from_memory(Board, Configs[i]), "load_from_memory",
                   Arg(NoCell, None, FALSE, i), None)

IsKingCheckCached ==
    \E white \in BOOLEAN :
        LET r == is_king_check_cached(Board, white)
        IN Changed(Snapshot, r.b, "is_king_check_cached", Arg(NoCell, None, white, 0), r.value)

\* every caller takes the piece from the grid
GetValidCells ==
    \E piece \in 1..Len(pieces) :
        /\ OnGrid(Board, piece)
        /\ LET r == get_valid_cells(Board, piece)
           IN Changed(Snapshot, r.b, "get_valid_cells", Arg(NoCell, piece, FALSE, 0), r.value)

GetCell ==
    \E cell \in QueryCells :
        Queried("get_cell", Arg(cell, None, FALSE, 0), get_cell(Board, cell), NoError)

IsValidCell ==
    \E cell \in QueryCells :
        Queried("is_valid_cell", Arg(cell, None, FALSE, 0), is_valid_cell(cell), NoError)

IsKingCheck ==
    \E white \in BOOLEAN :
        LET r == is_king_check(Board, white)
        IN Queried("is_king_check", Arg(NoCell, None, white, 0), r.value, r.err)

Evaluate == Queried("evaluate", NoArg, evaluate(Board), NoError)

Next ==
    \/ SetCell
    \/ PlaceNew
    \/ ClearBoard
    \/ Reset
    \/ LoadFromMemory
    \/ IsKingCheckCached
    \/ GetValidCells
    \/ GetCell
    \/ IsValidCell
    \/ IsKingCheck
    \/ Evaluate

Spec == Init /\ [][Next]_vars

-----------------------------------------------------------------------------
(* The engine on a loaded position *)

NewBoard ==
    [cells |-> EmptyGrid, pieces |-> <<>>, check_cache |-> <<>>, err |-> NoError, log |-> <<>>]

\* board = Board(); board.load_from_memory(config)
EngineInit ==
    \E i \in 1..Len(EngineConfigs) :
        /\ cells = load_from_memory(NewBoard, EngineConfigs[i]).cells
        /\ pieces = load_from_memory(NewBoard, EngineConfigs[i]).pieces
        /\ check_cache = <<>>
        /\ eval_cache = <<>>
        /\ total_hits = 0
        /\ searched = <<>>
        /\ NoGame
        /\ simulated = <<>>
        /\ lastOp = "load_from_memory"
        /\ lastMut = "load_from_memory"
        /\ lastArg = Arg(NoCell, None, FALSE, i)
        /\ result = None
        /\ err = NoError
        /\ pre = [cells |-> EmptyGrid, pieces |-> <<>>, check_cache |-> <<>>]
        /\ calls = 0

EvaluateAllPossibleMoves ==
    \E a \in MoveArgs :
        LET r == evaluate_all_possible_moves(Board, MinMaxArg(a.depth, a.playAsWhite),
                                             a.maximumNumberOfMoves)
        IN Changed(Snapshot, r.b, "evaluate_all_possible_moves", a, r.value)

MinMax ==
    \E minMaxArg \in MinMaxArgs :
        Queried("minMax", minMaxArg, minMax(Board, minMaxArg), NoError)

\* board.load_from_memory(str(board))
Reload ==
    /\ Len(pieces) + Cardinality({c \in Cell : cells[c] # None}) <= MaxPieces
    /\ Changed(Snapshot, load_from_memory(Board, Board_str(Board)), "reload", NoArg, None)

\* r is what the loop of suggest_random_move has left: the call returns
\* None, or random.choice(all_possible_moves)
Choice(r) ==
    IF r.b.err # NoError \/ r.moves = <<>> THEN {NoMove} ELSE Range(r.moves)

Suggested(r) ==
    \E move \in Choice(r) : Changed(Snapshot, r.b, "suggest_random_move", NoArg, move)

SuggestRandomMove == Suggested(suggest_random_move(Board))

EngineNext ==
    \/ EvaluateAllPossibleMoves
    \/ MinMax
    \/ SuggestRandomMove
    \/ Reload
    \/ ClearBoard

EngineSpec == EngineInit /\ [][EngineNext]_vars

-----------------------------------------------------------------------------
(* The search memo over a game *)

MinMaxCached ==
    \E minMaxArg \in SearchArgs :
        /\ Len(searched) < MaxSearches
        /\ LET r == minMax_cached(Board, eval_cache, total_hits, minMaxArg)
           IN /\ eval_cache' = r.eval_cache
              /\ total_hits' = r.total_hits
              /\ searched' = Append(searched, [depth |-> minMaxArg.depth,
                                               playAsWhite |-> minMaxArg.playAsWhite,
                                               fingerprint |-> hash(Board),
                                               move |-> r.value,
                                               runs |-> r.runs])
              /\ result' = r.value
        /\ lastOp' = "minMax_cached"
        /\ lastArg' = minMaxArg
        /\ err' = NoError
        /\ pre' = Snapshot
        /\ simulated' = <<>>
        /\ UNCHANGED <<cells, pieces, check_cache, lastMut, calls>>
        /\ UNCHANGED loop

SearchNext ==
    \/ MinMaxCached
    \/ Reload
    \/ ClearBoard

SearchSpec == EngineInit /\ [][SearchNext]_vars

-----------------------------------------------------------------------------
(* The game loop (ui.run_game).  A game value g holds the board and the     *)
(* locals of run_game; an exception ends the game with g.b.err set.         *)

Game ==
    [b |-> Board, running |-> running, nextMove |-> nextMove, whitesTurn |-> whitesTurn,
     uiState |-> uiState, played |-> played]

\* the set_cell(cell, piece) run_game is about to make, with the board, the
\* memo and whitesTurn as they are at that moment
Played(g, by, cell, piece) ==
    Append(g.played, [by |-> by, piece |-> piece, cell |-> cell,
                      whitesTurn |-> g.whitesTurn,
                      cells |-> g.b.cells, pieces |-> g.b.pieces,
                      check_cache |-> g.b.check_cache])

\* whitesTurn is left as it is
EngineMove_keeps_turn(g, r, move) ==
    IF r.b.err # NoError THEN [g EXCEPT !.b = r.b]
    ELSE IF move = NoMove THEN [g EXCEPT !.b = r.b, !.running = FALSE]
    ELSE [g EXCEPT !.b = set_cell(r.b, move.cell, move.piece),
                   !.nextMove = move,
                   !.uiState.score = move.score,
                   !.played = Played([g EXCEPT !.b = r.b], "engine", move.cell, move.piece)]

\* "if nextMove is None and not manual": r is what suggest_random_move has
\* left and move what it returned
EngineMove(g, r, move) ==
    IF r.b.err # NoError THEN [g EXCEPT !.b = r.b]
    ELSE IF move = NoMove THEN [g EXCEPT !.b = r.b, !.running = FALSE]
    ELSE [g EXCEPT !.b = set_cell(r.b, move.cell, move.piece),
                   !.nextMove = move,
                   !.uiState.score = move.score,
                   !.whitesTurn = FALSE,
                   !.played = Played([g EXCEPT !.b = r.b], "engine", move.cell, move.piece)]

\* v is what piece.get_valid_cells() returned; dragging is set before the call
Dragged(g, v) ==
    IF v.b.err # NoError THEN [g EXCEPT !.b = v.b, !.uiState.dragging = TRUE]
    ELSE [g EXCEPT !.b = v.b,
                   !.uiState.dragging = TRUE,
                   !.uiState.valid_cells = v.value,
                   !.uiState.selected_cell = g.uiState.mouse_over_cell]

MouseButtonDown(g) ==
    LET piece == get_cell(g.b, g.uiState.mouse_over_cell)
    IN IF piece # None /\ g.b.pieces[piece].white = g.whitesTurn
       THEN Dragged(g, get_valid_cells(g.b, piece))
       ELSE g

\* "for valid_cell in uiState.valid_cells": the loop goes on after a match;
\* mouse_over_cell[0] raises TypeError when the mouse is off the board
RECURSIVE CommitLoop(_, _)
CommitLoop(g, i) ==
    IF g.b.err # NoError \/ i > Len(g.uiState.valid_cells) THEN g
    ELSE IF g.uiState.mouse_over_cell = NoCell THEN [g EXCEPT !.b = Raise(g.b, "TypeError")]
    ELSE IF /\ g.uiState.mouse_over_cell[1] = g.uiState.valid_cells[i][1]
            /\ g.uiState.mouse_over_cell[2] = g.uiState.valid_cells[i][2]
    THEN LET piece == get_cell(g.b, g.uiState.selected_cell)
         IN IF piece = None THEN [g EXCEPT !.b = Raise(g.b, "AttributeError")]
            ELSE CommitLoop([g EXCEPT !.b = set_cell(g.b, g.uiState.mouse_over_cell, piece),
                                      !.nextMove = NoMove,
                                      !.whitesTurn = ~g.whitesTurn,
                                      !.played = Played(g, "user", g.uiState.mouse_over_cell,
                                                        piece)],
                            i + 1)
    ELSE CommitLoop(g, i + 1)

\* uiState.valid_cells = None, g being what the loop has left
Released(g) ==
    IF g.b.err # NoError THEN g ELSE [g EXCEPT !.uiState.valid_cells = NoList]

\* the piece is put on the cell under the mouse, valid or not
MouseButtonUp_any_cell(g) ==
    IF ~g.uiState.dragging THEN g
    ELSE IF g.uiState.selected_cell # g.uiState.mouse_over_cell
            /\ g.uiState.mouse_over_cell # NoCell
    THEN Released(CommitLoop([g EXCEPT !.uiState.dragging = FALSE,
                                       !.uiState.valid_cells = <<g.uiState.mouse_over_cell>>], 1))
    ELSE Released([g EXCEPT !.uiState.dragging = FALSE])

MouseButtonUp(g) ==
    IF ~g.uiState.dragging THEN g
    ELSE IF g.uiState.selected_cell # g.uiState.mouse_over_cell
    THEN Released(CommitLoop([g EXCEPT !.uiState.dragging = FALSE], 1))
    ELSE Released([g EXCEPT !.uiState.dragging = FALSE])

Handle(g, event) ==
    CASE event = "QUIT" -> [g EXCEPT !.running = FALSE]
      [] event = "MOUSEBUTTONDOWN" -> MouseButtonDown(g)
      [] event = "MOUSEBUTTONUP" -> MouseButtonUp(g)
      [] OTHER -> g

\* "for event in pygame.event.get()"
RECURSIVE EventLoop(_, _, _)
EventLoop(g, batch, i) ==
    IF g.b.err # NoError \/ i > Len(batch) THEN g
    ELSE EventLoop(Handle(g, batch[i]), batch, i + 1)

\* get_cell_under_mouse at the end of a pass: mouse is the cell under
\* pygame.mouse.get_pos(), None off the board
get_cell_under_mouse(g, mouse) ==
    IF g.b.err # NoError THEN g ELSE [g EXCEPT !.uiState.mouse_over_cell = mouse]

\* the positions a game is started on
CfgGame ==
    ConfigText(Placed(<<0, 7>> :> "K" @@ <<3, 1>> :> "P" @@ <<6, 1>> :> "p" @@ <<7, 0>> :> "k"))

GameConfigs == <<CfgGame, CfgMate>>

\* the cells the mouse is moved over
MouseCells == {<<6, 1>>, <<4, 1>>, <<3, 1>>}

EventTypes == {"QUIT", "MOUSEBUTTONDOWN", "MOUSEBUTTONUP"}

\* board = Board(); board.load_from_memory(config); run_game(board, manual)
GameInit ==
    \E i \in 1..Len(GameConfigs), m \in BOOLEAN :
        /\ cells = load_from_memory(NewBoard, GameConfigs[i]).cells
        /\ pieces = load_from_memory(NewBoard, GameConfigs[i]).pieces
        /\ check_cache = <<>>
        /\ eval_cache = <<>>
        /\ total_hits = 0
        /\ searched = <<>>
        /\ running = TRUE
        /\ manual = m
        /\ nextMove = NoMove
        /\ whitesTurn = TRUE
        /\ uiState = UIState
        /\ events = <<>>
        /\ played = <<>>
        /\ simulated = <<>>
        /\ lastOp = "load_from_memory"
        /\ lastMut = "load_from_memory"
        /\ lastArg = Arg(NoCell, None, FALSE, i)
        /\ result = None
        /\ err = NoError
        /\ pre = [cells |-> EmptyGrid, pieces |-> <<>>, check_cache |-> <<>>]
        /\ calls = 0

\* the end of a pass of the loop, g being the game as the pass leaves it
Pass(g, fetched) ==
    /\ cells' = g.b.cells
    /\ pieces' = g.b.pieces
    /\ check_cache' = g.b.check_cache
    /\ err' = g.b.err
    /\ running' = g.running
    /\ nextMove' = g.nextMove
    /\ whitesTurn' = g.whitesTurn
    /\ uiState' = g.uiState
    /\ played' = g.played
    /\ events' = IF fetched THEN <<>> ELSE events
    /\ lastOp' = "run_game"
    /\ lastMut' = "run_game"
    /\ lastArg' = NoArg
    /\ result' = None
    /\ pre' = Snapshot
    /\ simulated' = g.b.log
    /\ UNCHANGED <<manual, calls, eval_cache, total_hits, searched>>

\* the pass goes on after the engine's part unless "continue" was reached
AfterEngine(g, mouse) ==
    IF g.b.err # NoError \/ ~g.running THEN Pass(g, FALSE)
    ELSE Pass(get_cell_under_mouse(EventLoop(g, events, 1), mouse), TRUE)

Engine(r) ==
    \E move \in Choice(r), mouse \in MouseCells \cup {NoCell} :
        AfterEngine(EngineMove(Game, r, move), mouse)

\* a pass of "while running" that starts with a move of the engine
EnginePass ==
    /\ running /\ err = NoError
    /\ Len(played) < MaxPlacements
    /\ nextMove = NoMove /\ ~manual
    /\ Engine(suggest_random_move(Board))

\* a pass of "while running" without a move of the engine
UserPass ==
    /\ running /\ err = NoError
    /\ Len(played) < MaxPlacements
    /\ ~(nextMove = NoMove /\ ~manual)
    /\ \E mouse \in MouseCells \cup {NoCell} :
           Pass(get_cell_under_mouse(EventLoop(Game, events, 1), mouse), TRUE)

\* the window system posts an event
PostEvent ==
    \E event \in EventTypes :
        /\ running /\ err = NoError
        /\ Len(events) < MaxEvents
        /\ events' = Append(events, event)
        /\ UNCHANGED <<cells, pieces, check_cache, eval_cache, total_hits, searched,
                       running, manual, nextMove, whitesTurn, uiState, played,
                       simulated, lastOp, lastMut, lastArg, result, err, pre, calls>>

GameNext ==
    \/ EnginePass
    \/ UserPass
    \/ PostEvent

GameSpec == GameInit /\ [][GameNext]_vars

-----------------------------------------------------------------------------
(* The movement rules on positions with blocked, capturing and cornered    *)
(* pieces                                                                  *)

\* pawns on their starting row with a free path, a blocked first step and a
\* blocked second step, pawns that can take, pawns on the edge and on their
\* last row
CfgPawnRules ==
    ConfigText(Placed(<<1, 0>> :> "P" @@ <<1, 2>> :> "P" @@ <<2, 2>> :> "n"
                      @@ <<1, 4>> :> "P" @@ <<3, 4>> :> "b" @@ <<2, 3>> :> "r"
                      @@ <<2, 5>> :> "N" @@ <<7, 7>> :> "P" @@ <<6, 7>> :> "p"
                      @@ <<0, 5>> :> "p" @@ <<6, 1>> :> "p" @@ <<5, 0>> :> "Q"))

\* sliding pieces with own and opposing pieces on their rays
CfgSliders ==
    ConfigText(Placed(<<3, 3>> :> "R" @@ <<3, 6>> :> "P" @@ <<5, 3>> :> "p"
                      @@ <<6, 6>> :> "b" @@ <<0, 7>> :> "Q" @@ <<4, 4>> :> "q"
                      @@ <<1, 1>> :> "B"))

RulesConfigs == <<CfgPawnRules, CfgSliders>>

RulesInit ==
    \E i \in 1..Len(RulesConfigs) :
        /\ cells = load_from_memory(NewBoard, RulesConfigs[i]).cells
        /\ pieces = load_from_memory(NewBoard, RulesConfigs[i]).pieces
        /\ check_cache = <<>>
        /\ eval_cache = <<>>
        /\ total_hits = 0
        /\ searched = <<>>
        /\ NoGame
        /\ simulated = <<>>
        /\ lastOp = "load_from_memory"
        /\ lastMut = "load_from_memory"
        /\ lastArg = Arg(NoCell, None, FALSE, i)
        /\ result = None
        /\ err = NoError
        /\ pre = [cells |-> EmptyGrid, pieces |-> <<>>, check_cache |-> <<>>]
        /\ calls = 0

\* piece.get_reachable_cells() of a piece on the grid
GetReachableCells ==
    \E piece \in 1..Len(pieces) :
        /\ OnGrid(Board, piece)
        /\ Queried("get_reachable_cells", Arg(NoCell, piece, FALSE, 0),
                   get_reachable_cells(Board, piece), NoError)

\* board.set_cell(cell, piece) with one of the reachable cells of the piece
MoveTo ==
    \E piece \in 1..Len(pieces) :
        /\ OnGrid(Board, piece)
        /\ calls < MaxMoves
        /\ \E cell \in Range(get_reachable_cells(Board, piece)) :
               Changed(Snapshot, set_cell(Board, cell, piece), "set_cell",
                       Arg(cell, piece, FALSE, 0), None)

RulesNext ==
    \/ GetReachableCells
    \/ MoveTo

RulesSpec == RulesInit /\ [][RulesNext]_vars

-----------------------------------------------------------------------------
(* Properties *)

\* the board as it was when the last call started, with an empty memo
PreBoard ==
    [cells |-> pre.cells, pieces |-> pre.pieces, check_cache |-> <<>>, err |-> NoError,
     log |-> <<>>]

CellsOf(b, kind, white) ==
    {c \in Cell : /\ b.cells[c] # None
                  /\ b.pieces[b.cells[c]].kind = kind
                  /\ b.pieces[b.cells[c]].white = white}

BothKings(b) == CellsOf(b, "King", TRUE) # {} /\ CellsOf(b, "King", FALSE) # {}

RECURSIVE SumOf(_, _, _)
SumOf(b, ps, i) == IF i > Len(ps) THEN 0 ELSE Piece_evaluate(b, ps[i]) + SumOf(b, ps, i + 1)

\* C1: on a position with both kings, get_valid_cells returns exactly the
\* reachable cells after a move to which the uncached is_king_check of the
\* piece's colour is false, whatever was queried before.
C1_ValidCellsExact ==
    (lastOp = "get_valid_cells" /\ BothKings(PreBoard)) =>
        LET piece == lastArg.piece
            Safe(c) == is_king_check(set_cell(PreBoard, c, piece),
                                     pre.pieces[piece].white).value = FALSE
        IN /\ err = NoError
           /\ result = SelectSeq(get_reachable_cells(PreBoard, piece), Safe)

\* C2: get_valid_cells leaves the fingerprint of the board as it was before
\* the call, for every piece on every position.
C2_BoardIntact ==
    lastOp = "get_valid_cells" => hash(Board) = hash(PreBoard)

\* C3: for either colour, is_king_check_cached returns what is_king_check
\* returns on the current position, after any sequence of calls.
C3_CachedAgrees ==
    \A white \in BOOLEAN :
        find_king(Board, white) # None =>
            is_king_check_cached(Board, white).value = is_king_check(Board, white).value

\* C4: a piece stores cell c if and only if the grid holds that piece on c.
C4_BackReference ==
    \A p \in 1..Len(pieces) : \A c \in Cell :
        pieces[p].cell = c <=> cells[c] = p

OffBoardRow(cell) == cell[1] < 0 \/ cell[1] > 7

OffBoardColumn(cell) == cell[2] < 0 \/ cell[2] > 7

\* C5: set_cell with a row outside [0,7] fails with the row-range error, with
\* a valid row and a column outside [0,7] with the column-range error, for a
\* piece or None; the grid and every piece's stored cell stay as they were.
C5_SetCellRangeErrors ==
    lastOp = "set_cell" =>
        /\ OffBoardRow(lastArg.cell) =>
               err = "InvalidRowException" /\ cells = pre.cells /\ pieces = pre.pieces
        /\ (~OffBoardRow(lastArg.cell) /\ OffBoardColumn(lastArg.cell)) =>
               err = "InvalidColumnException" /\ cells = pre.cells /\ pieces = pre.pieces

\* a piece standing on the grid was passed with a cell off the board by its column
C5_Witness ==
    /\ lastOp = "set_cell"
    /\ err = "InvalidColumnException"
    /\ lastArg.piece # None
    /\ OnGrid(Board, lastArg.piece)

ProbedCells == ((-4..11) \X (-4..11))

\* C6: is_valid_cell is false and get_cell is None, without an exception, for
\* a cell with a row or column outside [0,7] and for the cell None;
\* is_valid_cell is true for the 64 cells of the board.
C6_ReadAccessorsTotal ==
    /\ \A c \in ProbedCells :
           is_valid_cell(c) = (c[1] \in 0..7 /\ c[2] \in 0..7)
    /\ lastOp = "is_valid_cell" =>
           /\ err = NoError
           /\ result = (lastArg.cell # NoCell /\ lastArg.cell \in Cell)
    /\ (lastOp = "get_cell" /\ lastArg.cell \notin Cell) =>
           err = NoError /\ result = None

\* get_cell was asked for a cell off a board that has pieces on it
C6_Witness ==
    /\ lastOp = "get_cell"
    /\ lastArg.cell = <<3, 8>>
    /\ result = None
    /\ \E c \in Cell : cells[c] # None

\* C7: set_cell(target, piece) with a piece standing on another cell empties
\* that cell, puts the piece on target and stores target in the piece, and
\* the piece that stood on target is no longer on the grid;
\* set_cell(target, None) leaves target empty.
C7_MoveSemantics ==
    (lastOp = "set_cell" /\ lastArg.cell \in Cell) =>
        LET target == lastArg.cell
            piece == lastArg.piece
        IN /\ err = NoError
           /\ piece = None => cells[target] = None
           /\ (/\ piece # None
               /\ pre.pieces[piece].cell \in Cell \ {target}
               /\ pre.cells[pre.pieces[piece].cell] = piece) =>
                  /\ cells[pre.pieces[piece].cell] = None
                  /\ cells[target] = piece
                  /\ pieces[piece].cell = target
                  /\ pre.cells[target] # None => ~OnGrid(Board, pre.cells[target])

\* a piece was moved from its cell onto a cell that held another piece
C7_Witness ==
    /\ lastOp = "set_cell"
    /\ err = NoError
    /\ lastArg.piece # None
    /\ pre.pieces[lastArg.piece].cell \in Cell \ {lastArg.cell}
    /\ pre.cells[pre.pieces[lastArg.piece].cell] = lastArg.piece
    /\ pre.cells[lastArg.cell] # None
    /\ cells[lastArg.cell] = lastArg.piece

\* C8: on a position with a king of the queried colour, is_king_check is
\* true if and only if the king's cell is among the reachable cells of some
\* piece of the other colour.
C8_CheckIffReachable ==
    lastOp = "is_king_check" =>
        \A king_cell \in CellsOf(Board, "King", lastArg.white) :
            /\ err = NoError
            /\ result = (\E c \in Cell :
                            /\ cells[c] # None
                            /\ pieces[cells[c]].white # lastArg.white
                            /\ king_cell \in Range(get_reachable_cells(Board, cells[c])))

\* is_king_check found a king in check
C8_Witness ==
    /\ lastOp = "is_king_check"
    /\ err = NoError
    /\ result = TRUE

\* C9: evaluate is the sum of the values of the white pieces minus the sum
\* of the values of the black pieces.
C9_EvaluateIsMaterialDifference ==
    lastOp = "evaluate" =>
        result = SumOf(Board, iterate_cells_with_pieces(Board, TRUE), 1)
                 - SumOf(Board, iterate_cells_with_pieces(Board, FALSE), 1)

\* C10: evaluate returns 0 right after reset and right after clear_board,
\* whatever the position was before.
C10_ZeroAfterResetAndClear ==
    (lastOp = "evaluate" /\ lastMut \in {"reset", "clear_board"}) =>
        err = NoError /\ result = 0

\* evaluate was called on the initial setup, reset from a board that held
\* other pieces before
C10_Witness ==
    /\ lastOp = "evaluate"
    /\ lastMut = "reset"
    /\ Len(pieces) > Len(ResetPlacements)
    /\ result = 0

-----------------------------------------------------------------------------
(* Properties of the move ranking and the search *)

IsRanking == lastOp = "evaluate_all_possible_moves"

\* the reachable cells of a piece after a move to which its own king is not
\* attacked, by the uncached detector
LegalCells(b, piece) ==
    LET Safe(c) == is_king_check(set_cell(b, c, piece), b.pieces[piece].white).value = FALSE
    IN SelectSeq(get_reachable_cells(b, piece), Safe)

\* the number of (piece, valid cell) pairs of a colour
LegalMoves(b, white) ==
    LET ps == iterate_cells_with_pieces(b, white)
        sum[i \in 0..Len(ps)] == IF i = 0 THEN 0 ELSE sum[i - 1] + Len(LegalCells(b, ps[i]))
    IN sum[Len(ps)]

C12_ExactlyMinLimitN ==
    (IsRanking /\ (BothKings(PreBoard) \/ pre.cells = EmptyGrid)) =>
        LET N == LegalMoves(PreBoard, lastArg.playAsWhite)
            limit == lastArg.maximumNumberOfMoves
        IN /\ err = NoError
           /\ Len(result) = IF limit < N THEN limit ELSE N

\* the value of the piece a move takes, 0 when the target cell is empty
Captured(move) ==
    IF cells[move.cell] = None THEN 0 ELSE Piece_evaluate(Board, cells[move.cell])

\* C13: with White to move, the moves that take a piece come in the order
\* of the value of the piece taken, and before every move that takes none.
C13_CapturesRankedByValue ==
    (IsRanking /\ err = NoError /\ lastArg.playAsWhite) =>
        \A i, j \in 1..Len(result) :
            i < j => Captured(result[i]) >= Captured(result[j])

\* C14: when evaluate_all_possible_moves returns, the grid and the stored
\* cell of every piece on the board are what they were at the call, for
\* either side and every limit.
C14_RankingRestoresBoard ==
    (IsRanking /\ err = NoError) =>
        /\ cells = pre.cells
        /\ \A c \in Cell :
               cells[c] # None => pieces[cells[c]].cell = pre.pieces[cells[c]].cell

\* the moves ranked include one that takes a piece and one that takes none
C14_Witness ==
    /\ IsRanking
    /\ err = NoError
    /\ lastArg.playAsWhite
    /\ \E i, j \in 1..Len(result) : Captured(result[i]) > 0 /\ Captured(result[j]) = 0

\* the list minMax is meant to start from
Ranked == evaluate_all_possible_moves(Board, lastArg, 10)

\* C15: when evaluate_all_possible_moves returns an empty list, minMax
\* returns a Move with a very low score (below minus the value of a king)
\* if White is to move and a very high one if Black is, at every depth.
C15_NoMoveSentinel ==
    (lastOp = "minMax" /\ Ranked.b.err = NoError /\ Ranked.value = <<>>) =>
        /\ result # None
        /\ IF lastArg.playAsWhite THEN result.score < -1000 ELSE result.score > 1000

\* C16: when the side to move has a move and the depth is at most 1, minMax
\* returns the first move of evaluate_all_possible_moves, and the position
\* is as it was.
C16_FirstRankedMoveAtDepthOne ==
    (/\ lastOp = "minMax"
     /\ lastArg.depth <= 1
     /\ Ranked.b.err = NoError
     /\ Ranked.value # <<>>) =>
        /\ result # None
        /\ result = Ranked.value[1]
        /\ cells = pre.cells
        /\ pieces = pre.pieces

\* C17: a call of minMax_cached with the depth and the fingerprint of an
\* earlier call returns that call's Move and does not run minMax; a call
\* that differs from every earlier one in depth or in fingerprint runs
\* minMax once and stores what it returns.
C17_MemoPerDepthAndFingerprint ==
    /\ \A j \in 1..Len(searched) :
           LET earlier == {i \in 1..(j - 1) :
                              /\ searched[i].depth = searched[j].depth
                              /\ searched[i].fingerprint = searched[j].fingerprint}
           IN IF earlier # {}
              THEN /\ searched[j].runs = 0
                   /\ \A i \in earlier : searched[j].move = searched[i].move
              ELSE searched[j].runs = 1
    /\ lastOp = "minMax_cached" =>
           /\ eval_cache_key(Board, lastArg) \in DOMAIN eval_cache
           /\ eval_cache[eval_cache_key(Board, lastArg)] = result

\* a second search with the depth of the first, on the position loaded again
\* from its text, was answered from the memo
C17_Witness ==
    /\ lastOp = "minMax_cached"
    /\ Len(searched) = 2
    /\ searched[2].runs = 0
    /\ total_hits = 1
    /\ Len(pieces) > Cardinality({c \in Cell : cells[c] # None})
    /\ cells # EmptyGrid

\* C18: load_from_memory of str(board) gives a position with the
\* fingerprint of the position it was written from.
C18_TextRoundTrip ==
    lastOp = "reload" => err = NoError /\ hash(Board) = hash(PreBoard)

\* a position with the six kinds in both colours was written and loaded
C18_Witness ==
    /\ lastOp = "reload"
    /\ UpperChars \cup LowerChars \subseteq Range(hash(Board))
    /\ cells # pre.cells

SameContent(b1, b2) ==
    \A c \in Cell :
        /\ (b1.cells[c] = None) = (b2.cells[c] = None)
        /\ b1.cells[c] # None =>
               /\ b1.pieces[b1.cells[c]].kind = b2.pieces[b2.cells[c]].kind
               /\ b1.pieces[b1.cells[c]].white = b2.pieces[b2.cells[c]].white

\* C19: the grid before a call and the grid after it have the same hash if
\* and only if every cell holds the same kind and colour, or is empty, in
\* both, whichever Piece objects stand on them and whatever the memo holds.
C19_HashInjective ==
    (hash(Board) = hash(PreBoard)) = SameContent(Board, PreBoard)

\* a position was loaded over the same position: other Piece objects, the
\* same fingerprint
C19_Witness ==
    /\ lastOp = "load_from_memory"
    /\ cells # pre.cells
    /\ cells # EmptyGrid
    /\ hash(Board) = hash(PreBoard)

StartHash ==
    <<"r", "n", "b", "q", "k", "b", "n", "r">> \o [i \in 1..8 |-> "p"]
    \o [i \in 1..32 |-> "."]
    \o [i \in 1..8 |-> "P"] \o <<"R", "N", "B", "Q", "K", "B", "N", "R">>

\* C20: after reset, from any state, the grid is the initial setup: either
\* colour has 16 pieces, White on rows 0 and 1, Black on rows 6 and 7, and
\* find_king gives the one king of the colour; after clear_board find_king
\* gives None for both colours.
C20_ResetIsInitialSetup ==
    /\ lastMut = "reset" =>
           /\ hash(Board) = StartHash
           /\ \A white \in BOOLEAN :
                  LET ps == iterate_cells_with_pieces(Board, white)
                      king == find_king(Board, white)
                  IN /\ Len(ps) = 16
                     /\ \A i \in 1..Len(ps) :
                            /\ pieces[ps[i]].white = white
                            /\ pieces[ps[i]].cell[1] \in (IF white THEN {0, 1} ELSE {6, 7})
                     /\ king # None
                     /\ pieces[king].kind = "King"
                     /\ pieces[king].white = white
                     /\ CellsOf(Board, "King", white) = {pieces[king].cell}
    /\ lastMut = "clear_board" =>
           \A white \in BOOLEAN : find_king(Board, white) = None

\* reset was called on a board that held pieces on other cells
C20_Witness ==
    /\ lastOp = "reset"
    /\ \E c \in Cell : c[1] \in 2..5 /\ pre.cells[c] # None

-----------------------------------------------------------------------------
(* Properties of the random mover, the game loop and the movement rules *)

\* the (piece, cell) pairs of a colour with cell among the piece's legal cells
LegalPairs(b, white) ==
    UNION {{<<p, t>> : t \in Range(LegalCells(b, p))} :
              p \in Range(iterate_cells_with_pieces(b, white))}

BoardAt(i) ==
    [cells |-> played[i].cells, pieces |-> played[i].pieces,
     check_cache |-> played[i].check_cache, err |-> NoError, log |-> <<>>]

\* C22: a move of the user is put on the board only if its piece stands on
\* the grid, the destination is among the cells get_valid_cells() of that
\* piece returns on the position as it is at that moment, and the piece has
\* the colour of the side to move: the colour of whitesTurn, which is White
\* for the first, third, ... move of the game and Black for the others.
C22_UserMovesAreValid ==
    \A i \in 1..Len(played) :
        played[i].by = "user" =>
            /\ OnGrid(BoardAt(i), played[i].piece)
            /\ get_valid_cells(BoardAt(i), played[i].piece).b.err = NoError
            /\ played[i].cell \in Range(get_valid_cells(BoardAt(i), played[i].piece).value)
            /\ played[i].pieces[played[i].piece].white = played[i].whitesTurn
            /\ played[i].pieces[played[i].piece].white = (i % 2 = 1)

\* the user has moved a piece that has more than one valid cell, in a game
\* against the engine
C22_Witness ==
    /\ ~manual
    /\ \E i \in 1..Len(played) :
           /\ played[i].by = "user"
           /\ Len(get_valid_cells(BoardAt(i), played[i].piece).value) > 1

\* C30: in a game against the engine the moves are made by the engine and
\* the user in turn, the engine first; the engine moves white pieces and
\* the user black ones, however the events are batched.
C30_EngineAndUserAlternate ==
    ~manual =>
        \A i \in 1..Len(played) :
            /\ played[i].by = (IF i % 2 = 1 THEN "engine" ELSE "user")
            /\ played[i].pieces[played[i].piece].white = (played[i].by = "engine")

\* the engine has answered a move of the user
C30_Witness ==
    /\ ~manual
    /\ Len(played) = 3
    /\ played[2].by = "user"
    /\ played[3].by = "engine"

\* the moves the last call simulated: every one is three set_cell calls
SimulatedMoves == 1..(Len(simulated) \div 3)

\* C23 (as stated): after each simulated move, the first call puts the
\* target cell's original occupant back on the target cell and the second
\* puts the moved piece back on its original cell.
C23_TargetRestoredFirst ==
    err = NoError =>
        \A k \in SimulatedMoves :
            LET move == simulated[3 * k - 2]
                first == simulated[3 * k - 1]
                second == simulated[3 * k]
            IN /\ first.cell = move.cell
               /\ first.piece = pre.cells[move.cell]
               /\ second.cell = pre.pieces[move.piece].cell
               /\ second.piece = move.piece

\* C23 (amended): after each simulated move, of the legality filter and of
\* the ranking, the first call puts the moved piece back on its original
\* cell and the second puts the target cell's original occupant back on the
\* target cell; a call that returns has made nothing but such triples.
C23_PieceRestoredFirst ==
    err = NoError =>
        /\ Len(simulated) % 3 = 0
        /\ \A k \in SimulatedMoves :
               LET move == simulated[3 * k - 2]
                   first == simulated[3 * k - 1]
                   second == simulated[3 * k]
               IN /\ move.piece # None
                  /\ first.cell = pre.pieces[move.piece].cell
                  /\ first.piece = move.piece
                  /\ second.cell = move.cell
                  /\ second.piece = pre.cells[move.cell]

\* the ranking has simulated a move that takes a piece
C23_Witness ==
    /\ lastOp = "evaluate_all_possible_moves"
    /\ err = NoError
    /\ \E k \in SimulatedMoves : pre.cells[simulated[3 * k - 2].cell] # None

IsRule(kinds) ==
    /\ lastOp = "get_reachable_cells"
    /\ pieces[lastArg.piece].kind \in kinds

IsEmpty(c) == c \in Cell /\ cells[c] = None

\* c holds a piece of the other colour than the piece asked
IsOpposing(c) ==
    /\ c \in Cell
    /\ cells[c] # None
    /\ pieces[cells[c]].white # pieces[lastArg.piece].white

NoDuplicates(list) == Cardinality(Range(list)) = Len(list)

\* C24: for a pawn, get_reachable_cells returns exactly the cell one step
\* forward if it is on the board and empty, the cell two steps forward if
\* the pawn is on its starting row and both cells are empty, and each of the
\* two forward diagonal cells that holds an opposing piece, every cell
\* once; for a pawn on its last row the list is empty, without an error.
C24_PawnRule ==
    IsRule({"Pawn"}) =>
        LET white == pieces[lastArg.piece].white
            row == pieces[lastArg.piece].cell[1]
            col == pieces[lastArg.piece].cell[2]
            fwd == IF white THEN 1 ELSE -1
            one == <<row + fwd, col>>
            two == <<row + 2 * fwd, col>>
        IN /\ err = NoError
           /\ NoDuplicates(result)
           /\ Range(result) =
                  {c \in {one} : IsEmpty(c)}
                  \cup {c \in {two} : row = (IF white THEN 1 ELSE 6) /\ IsEmpty(one) /\ IsEmpty(c)}
                  \cup {c \in {<<row + fwd, col - 1>>, <<row + fwd, col + 1>>} : IsOpposing(c)}
           /\ row = (IF white THEN 7 ELSE 0) => result = <<>>

\* a pawn on its starting row was asked whose first step is blocked and
\* whose second is free, and that can take a piece
C24_Witness ==
    /\ IsRule({"Pawn"})
    /\ pieces[lastArg.piece].cell[1] = (IF pieces[lastArg.piece].white THEN 1 ELSE 6)
    /\ LET fwd == IF pieces[lastArg.piece].white THEN 1 ELSE -1
           row == pieces[lastArg.piece].cell[1]
           col == pieces[lastArg.piece].cell[2]
       IN ~IsEmpty(<<row + fwd, col>>) /\ IsEmpty(<<row + 2 * fwd, col>>)
    /\ Len(result) = 1

\* the cells of the ray from the piece asked in direction d, up to the first
\* cell that is off the board or occupied, that cell included if it holds an
\* opposing piece
Ray(d) ==
    LET from == pieces[lastArg.piece].cell
        At(k) == <<from[1] + k * d[1], from[2] + k * d[2]>>
        stop == CHOOSE k \in 1..8 : ~IsEmpty(At(k)) /\ \A j \in 1..(k - 1) : IsEmpty(At(j))
    IN {At(k) : k \in 1..(stop - 1)} \cup {c \in {At(stop)} : IsOpposing(c)}

Orthogonal == {<<-1, 0>>, <<1, 0>>, <<0, -1>>, <<0, 1>>}

Diagonal == {<<-1, -1>>, <<-1, 1>>, <<1, -1>>, <<1, 1>>}

\* what a piece of another kind would reach from the cell of the piece asked
ReachAs(kind) ==
    Range(get_reachable_cells([Board EXCEPT !.pieces[lastArg.piece].kind = kind], lastArg.piece))

\* C25: for a rook, a bishop and a queen, get_reachable_cells returns, every
\* cell once, the cells of its rays: the empty cells up to the first
\* obstacle, and the obstacle's cell if it holds an opposing piece; the rook
\* has the 4 orthogonal rays, the bishop the 4 diagonal ones, and the queen
\* reaches what a rook and a bishop of its colour reach from its cell.
C25_SlidingRule ==
    IsRule({"Rook", "Bishop", "Queen"}) =>
        LET kind == pieces[lastArg.piece].kind
            rays == CASE kind = "Rook" -> Orthogonal
                      [] kind = "Bishop" -> Diagonal
                      [] kind = "Queen" -> Orthogonal \cup Diagonal
        IN /\ err = NoError
           /\ NoDuplicates(result)
           /\ Range(result) = UNION {Ray(d) : d \in rays}
           /\ kind = "Queen" => Range(result) = ReachAs("Rook") \cup ReachAs("Bishop")

\* a queen was asked that has an own piece, an opposing piece and the edge
\* of the board at the end of its rays
C25_Witness ==
    /\ IsRule({"Queen"})
    /\ \E d \in Orthogonal \cup Diagonal : \E c \in Ray(d) : IsOpposing(c)
    /\ \E d \in Orthogonal \cup Diagonal, k \in 1..7 :
           LET c == <<pieces[lastArg.piece].cell[1] + k * d[1],
                      pieces[lastArg.piece].cell[2] + k * d[2]>>
           IN /\ c \in Cell /\ ~IsEmpty(c) /\ ~IsOpposing(c)
              /\ \A j \in 1..(k - 1) :
                     IsEmpty(<<pieces[lastArg.piece].cell[1] + j * d[1],
                               pieces[lastArg.piece].cell[2] + j * d[2]>>)
    /\ Len(result) > 8

\* C26: is_king_check for a colour that has no king on the board raises an
\* error instead of returning a boolean; and get_valid_cells of a piece of
\* such a colour that has a reachable cell raises it too, when the memo has
\* no entry for the first move it tries.
C26_NoKingFails ==
    /\ (lastOp = "is_king_check" /\ CellsOf(Board, "King", lastArg.white) = {}) =>
           err = "AttributeError" /\ result = NoResult
    /\ lastOp = "get_valid_cells" =>
           LET piece == lastArg.piece
               white == pre.pieces[piece].white
               reachable == get_reachable_cells(PreBoard, piece)
           IN (/\ CellsOf(PreBoard, "King", white) = {}
               /\ reachable # <<>>
               /\ check_cache_key(set_cell(PreBoard, reachable[1], piece), white)
                      \notin DOMAIN pre.check_cache) =>
                  err = "AttributeError" /\ result = NoResult

\* get_valid_cells was called for a black piece with a reachable cell on a
\* board without a black king, and has raised the error
C26_Witness ==
    /\ lastOp = "get_valid_cells"
    /\ err = "AttributeError"
    /\ ~pre.pieces[lastArg.piece].white
    /\ CellsOf(PreBoard, "King", FALSE) = {}
    /\ get_reachable_cells(PreBoard, lastArg.piece) # <<>>

-----------------------------------------------------------------------------
(* Properties of the iteration, the memo key and the grid *)

\* the board as it was when the last call started, with the memo of then
PreBoardWithMemo == [PreBoard EXCEPT !.check_cache = pre.check_cache]

RECURSIVE ValidPairs(_, _, _, _)

ValidPairsStep(v, ps, i, pairs) ==
    ValidPairs(v.b, ps, i + 1, pairs \cup {<<ps[i], c>> : c \in Range(v.value)})

\* the (piece, cell) pairs with cell in the piece's get_valid_cells(), the
\* pieces ps being asked one after the other
ValidPairs(b, ps, i, pairs) ==
    IF i > Len(ps) THEN pairs
    ELSE ValidPairsStep(get_valid_cells(b, ps[i]), ps, i, pairs)

\* C27: when evaluate_all_possible_moves returns fewer moves than its limit
\* (nothing was cut off), the list holds exactly one Move for every pair of
\* a piece of the side to move and a cell of its get_valid_cells(), and no
\* other Move: no piece is passed over or visited twice although the grid
\* is changed and restored while the pieces are iterated.
C27_OneMovePerValidPair ==
    (IsRanking /\ err = NoError /\ Len(result) < lastArg.maximumNumberOfMoves) =>
        LET ps == iterate_cells_with_pieces(PreBoardWithMemo, lastArg.playAsWhite)
            pairs == ValidPairs(PreBoardWithMemo, ps, 1, {})
        IN /\ \A i \in 1..Len(result) : <<result[i].piece, result[i].cell>> \in pairs
           /\ \A pair \in pairs :
                  Cardinality({i \in 1..Len(result) :
                                  /\ result[i].piece = pair[1]
                                  /\ result[i].cell = pair[2]}) = 1

\* an untruncated list with moves of two pieces, one of them to a cell that
\* holds a piece
C27_Witness ==
    /\ IsRanking
    /\ err = NoError
    /\ Len(result) < lastArg.maximumNumberOfMoves
    /\ \E i, j \in 1..Len(result) :
           /\ result[i].piece # result[j].piece
           /\ cells[result[i].cell] # None

C29_OccupantStoresItsCell ==
    /\ \A p \in 1..Len(pieces) : Cardinality({c \in Cell : cells[c] = p}) <= 1
    /\ \A c \in Cell : cells[c] # None => pieces[cells[c]].cell = c

\* set_cell has placed a piece, and a piece that is off the grid stores a
\* cell on which another piece stands
C29_Witness ==
    /\ lastOp = "set_cell"
    /\ err = NoError
    /\ lastArg.piece # None
    /\ OnGrid(Board, lastArg.piece)
    /\ \E p \in 1..Len(pieces) :
           /\ ~OnGrid(Board, p)
           /\ pieces[p].cell # NoCell
           /\ cells[pieces[p].cell] # None
====
